---- MODULE Spec2Model ----
(***************************************************************************)
(* A model of the Forge adapter layer:                                     *)
(*   - run_game            (src/agent_loop.py): the HTTP control loop      *)
(*   - ForgeEnv            (src/forge_gym/env.py): the Gymnasium wrapper   *)
(*   - _calculate_reward   (src/forge_gym/env.py): the dense reward        *)
(*   - _get_observation    (src/forge_gym/env.py): the phase code          *)
(*   - _read_response      (src/forge_gym/env.py): reading one answer      *)
(*   - the commands and answers on the engine's pipes                      *)
(*                                                                         *)
(* Python dicts are functions whose DOMAIN is the set of keys present, so  *)
(* d.get(k, default) is Get(d, k, default) and {} is the empty function.   *)
(* Rewards are counted in tenths (0.1 is 1, 10.0 is 100); the rounding of  *)
(* the floating-point product n * 0.1 is not modelled.                     *)
(***************************************************************************)
EXTENDS Integers, Sequences, FiniteSets, TLC

VARIABLES
    \* ---- run_game (src/agent_loop.py) ----
    pc,             \* position of run_game: idle, loop, policy, submit, done,
                    \* returned, raised, exited
    state,          \* local `state`: the last value forge_request returned
    step,           \* local `step`
    action_index,   \* local `action_index`
    policy_result,  \* the value the decision source returned last
    stepRequests,   \* number of /api/step requests sent so far
    lastCommand,    \* body of the last /api/step request
    allSame,        \* every engine answer so far equals the answer to /api/reset
    policy_type,    \* Python type of the value the decision source returned last
    policyCalls,    \* number of indices the decision source has handed back
    exception,      \* the exception that left run_game, "none" otherwise
    game_log,       \* local `game_log`, None before it is bound
    log_file,       \* the transcript written to game_log_<time>.txt, None if none
    return_value,   \* what run_game returned
    user_input,     \* the last input read by local_debug_policy
    \* ---- ForgeEnv (src/forge_gym/env.py) ----
    constructed,    \* how ForgeEnv(**kwargs) ended: "no" (not called), "yes", "TypeError"
    kwargs,         \* the keyword arguments ForgeEnv was called with
    process,        \* self.process: "None" or "running"
    current_state,  \* self.current_state
    current_actions,\* self.current_actions
    episode_turns,  \* self.episode_turns
    previous_state, \* local `previous_state` of the last step
    command,        \* the action command the last step wrote to the engine
    result,         \* what the last reset/step call returned (or raised)
    lifeTrace,      \* the lives shown by every observation since reset
    rewardTrace,    \* the reward of every step since reset
    call,           \* the last method called: none, reset, step, close
    procAlive,      \* the engine process held in self.process is still running
    orphans,        \* engine processes still running that self.process dropped
    teardown,       \* what _close_process did during the last call
    \* ---- _calculate_reward as a pure function ----
    rw_prev,        \* argument previous_state
    rw_curr,        \* argument current_state
    rw_out,         \* the value returned, NoneValue before the call
    \* ---- the normalized action list of the policy payloads ----
    nz_state,       \* argument game_state
    nz_policy,      \* possible_actions built by policy_request, None before
    nz_debug,       \* possible_actions built by local_debug_policy, None before
    \* ---- ForgeEnv's commands and the engine's answers on the pipe ----
    wr_process,     \* self.process: "None" or "running"
    wr_out,         \* answers in the pipe from the engine's stdout
    wr_buf,         \* answers in the buffer of the text stream process.stdout
    wr_sent,        \* number of commands written to the process held
    wr_log,         \* the writes and reads of the last call, in order
    wr_steps,       \* steps taken since the last reset
    \* ---- one call of _read_response, line by line ----
    rd_process,     \* self.process and its stdout are there
    rd_doc,         \* every line the engine writes in answer to the command
    rd_plan,        \* the chunks of rd_doc the engine has not written yet
    rd_exits,       \* the engine exits once it has written its last chunk
    rd_pipe,        \* lines in the pipe from the engine's stdout
    rd_buf,         \* lines in the buffer of the text stream process.stdout
    rd_eof,         \* the engine has closed its end of the pipe
    rd_lines,       \* local `response_lines`
    rd_clock,       \* time.time() - start_time, in tenths of a second
    rd_pc,          \* position: select, readline, blocked, returned
    \* ---- _get_observation as a pure function ----
    ob_state,       \* self.current_state
    ob_out          \* the observation returned, None before the call

loopVars == <<pc, state, step, action_index, policy_result, stepRequests, lastCommand,
              allSame, policy_type, policyCalls, exception, game_log, log_file,
              return_value, user_input>>
envVars == <<constructed, kwargs, process, current_state, current_actions,
             episode_turns, previous_state, command, result, lifeTrace, rewardTrace,
             call, procAlive, orphans, teardown>>
rwVars == <<rw_prev, rw_curr, rw_out>>
nzVars == <<nz_state, nz_policy, nz_debug>>
wrVars == <<wr_process, wr_out, wr_buf, wr_sent, wr_log, wr_steps>>
rdVars == <<rd_process, rd_doc, rd_plan, rd_exits, rd_pipe, rd_buf, rd_eof,
            rd_lines, rd_clock, rd_pc>>
obVars == <<ob_state, ob_out>>
vars == <<loopVars, envVars, rwVars, nzVars, wrVars, rdVars, obVars>>

\* the variables of the other parts, which a part leaves unchanged
otherThanLoop == <<envVars, rwVars, nzVars, wrVars, rdVars, obVars>>
otherThanEnv == <<loopVars, rwVars, nzVars, wrVars, rdVars, obVars>>
otherThanReward == <<loopVars, envVars, nzVars, wrVars, rdVars, obVars>>
otherThanNormalize == <<loopVars, envVars, rwVars, wrVars, rdVars, obVars>>
otherThanWire == <<loopVars, envVars, rwVars, nzVars, rdVars, obVars>>
otherThanRead == <<loopVars, envVars, rwVars, nzVars, wrVars, obVars>>
otherThanObservation == <<loopVars, envVars, rwVars, nzVars, wrVars, rdVars>>

----------------------------------------------------------------------------
(* Python values *)

\* Python's None
NoneValue == [None |-> TRUE]

\* Python's {}
EmptyDict == <<>>

\* d.get(k, default)
Get(d, k, default) == IF k \in DOMAIN d THEN d[k] ELSE default

\* Python's [] where a dict was expected (a JSON array that parsed)
EmptyList == [list |-> TRUE]

\* bool(v) is False: None, an empty dict or an empty list
Falsy(v) == v = NoneValue \/ v = EmptyList \/ DOMAIN v = {}

----------------------------------------------------------------------------
(* Sizes of run_game's inputs *)

\* longest action list the HTTP engine offers
MaxActions == 2

\* safety limit of run_game
max_steps == 500

----------------------------------------------------------------------------
(* The engine seen over HTTP by run_game *)

\* the k-th action descriptor of an engine action list
ActionDescriptor(k) ==
    IF k = 1 THEN [type |-> "pass_priority", card_name |-> ""]
             ELSE [type |-> "play_land", card_name |-> "Forest"]

\* an engine action list of length n
ActionList(n) == [k \in 1..n |-> ActionDescriptor(k)]

\* <<player1 life, player2 life>> pairs the HTTP engine reports
HttpLives == { <<20, 20>>, <<20, 0>> }

\* RawState objects returned by /api/reset and /api/step
HttpStates ==
    { [game_over |-> g,
       possible_actions |-> [actions |-> ActionList(n)],
       player1 |-> [life |-> l[1]],
       player2 |-> [life |-> l[2]]] :
         g \in BOOLEAN, n \in 0..MaxActions, l \in HttpLives }

\* what forge_request returns: the parsed JSON value, or the failure marker None
ForgeResponses == HttpStates \cup {NoneValue}

\* how an HTTP exchange with the engine ends: a body that parses to a RawState,
\* an error raised by urlopen (connection refused, timeout while connecting,
\* HTTP error status), a timeout while the body is read, or a body that is
\* not JSON
HttpOutcomes ==
    { [http |-> "body", json |-> s] : s \in HttpStates }
    \cup { [http |-> "URLError"], [http |-> "socket.timeout"],
           [http |-> "JSONDecodeError"] }

\* indices a decision source may hand back
PolicyReturns == -1 .. MaxActions

\* JSON values of a policy answer, with their Python type
PyInt(i) == [type |-> "int", value |-> i]
\* the string that spells the integer i
PyStr(i) == [type |-> "str", value |-> i]
PyList == [type |-> "list", value |-> 0]
PyNone == [type |-> "NoneType", value |-> 0]
PyDict(d) == [type |-> "dict", value |-> d]

\* values of the action_index / index field of a policy answer
PolicyFieldValues == { PyInt(i) : i \in PolicyReturns } \cup { PyStr(1), PyNone }

\* parsed bodies of a policy answer
PolicyBodies ==
    { PyInt(i) : i \in PolicyReturns }
    \cup { PyStr(1), PyList, PyNone }
    \cup { PyDict([action_index |-> v]) : v \in PolicyFieldValues }
    \cup { PyDict([index |-> PyInt(i)]) : i \in PolicyReturns }
    \cup { PyDict([action_index |-> PyNone, index |-> PyInt(1)]),
           PyDict(EmptyDict) }

\* how an HTTP exchange with the policy service ends
PolicyOutcomes ==
    { [http |-> "body", json |-> b] : b \in PolicyBodies }
    \cup { [http |-> "URLError"], [http |-> "socket.timeout"],
           [http |-> "JSONDecodeError"] }

\* a line the operator types at the prompt of local_debug_policy
Line(t) == [text |-> t]

\* input() raised EOFError
EndOfInput == [EOFError |-> TRUE]

\* what input() yields at the prompt
OperatorInputs ==
    { Line("0"), Line(" 1 "), Line("2"), Line("-1"), Line("abc"), Line("J"),
      Line("q"), EndOfInput }

\* state.get("possible_actions", {}).get("actions", [])
ActionsOf(s) == Get(Get(s, "possible_actions", EmptyDict), "actions", <<>>)

\* state.get("game_over") as a truth value
GameOver(s) == Get(s, "game_over", FALSE)

\* the body of a /api/step request
PlayAction(i) == [cmd |-> "play_action", index |-> i]

NoCommand == [cmd |-> "none"]

\* run_game has not returned
NotReturned == [returned |-> FALSE]

\* game_log = []: the log keeps how many entries of each kind were appended
\* (action lines, "No actions available!", "ERROR: Failed to get state after
\* action!"), not their order
EmptyLog == [actions |-> 0, no_actions |-> 0, errors |-> 0]

----------------------------------------------------------------------------
(* forge_request, policy_request, local_debug_policy *)

\* forge_request(endpoint, data): only urllib.error.URLError is caught
ForgeRequest(o) ==
    IF o.http = "body" THEN [returns |-> o.json]
    ELSE IF o.http = "URLError" THEN [returns |-> NoneValue]
    ELSE [raises |-> o.http]

\* int(result) of policy_request's last branch: the value, or 0 after the
\* ValueError / TypeError handler
IntOfBody(body) == IF body.type = "str" THEN PyInt(body.value) ELSE PyInt(0)

\* the value policy_request returns for an HTTP outcome
PolicyRequest(o) ==
    IF o.http # "body" THEN PyInt(0)
    ELSE LET body == o.json
         IN  IF body.type = "dict"
               THEN LET idx == Get(body.value, "action_index",
                                   Get(body.value, "index", PyInt(0)))
                    IN  IF idx = PyNone THEN PyInt(0) ELSE idx
             ELSE IF body.type = "int" THEN body
             ELSE IntOfBody(body)

\* user_input.strip().lower() for the lines of OperatorInputs
StripLower(t) ==
    IF t = " 1 " THEN "1" ELSE IF t = "J" THEN "j" ELSE t

\* the texts int() accepts among the lines of OperatorInputs
Numerals == {"0", "1", "2", "-1"}

\* int(user_input) for a numeral
IntOf(t) == IF t = "0" THEN 0 ELSE IF t = "1" THEN 1 ELSE IF t = "2" THEN 2 ELSE 0 - 1

\* DebugIndexValid with the upper bound included
DebugIndexValidInclusive(idx, n) == 0 <= idx /\ idx <= n

\* 0 <= idx < len(actions)
DebugIndexValid(idx, n) == 0 <= idx /\ idx < n

----------------------------------------------------------------------------
(* run_game *)

\* StartsRunning for a loop that is entered whatever /api/reset returned
StartsRunningAlways(resp) == TRUE

\* `if not state: return None` is not taken
StartsRunning(resp) == ~Falsy(resp)

\* LoopGuard with the ceiling compared by <= (one iteration too many)
LoopGuardOffByOne(s, n) == ~Get(s, "game_over", FALSE) /\ n <= max_steps

\* the while condition: not state.get("game_over") and step < max_steps
LoopGuard(s, n) == ~GameOver(s) /\ n < max_steps

\* NoActions for a test that never finds the list empty
NoActionsNever(count) == count < 0

\* action_count == 0
NoActions(count) == count = 0

\* ValidateIndex with the upper bound compared by > (accepts i = count)
ValidateIndexOffByOne(i, count) == IF i < 0 \/ i > count THEN 0 ELSE i

\* the index check: out-of-range and negative indices are replaced by 0
ValidateIndex(i, count) == IF i < 0 \/ i >= count THEN 0 ELSE i

\* actions[i] does not raise IndexError (Python accepts -len..len-1)
Indexable(i, count) == -count <= i /\ i < count

\* state = forge_request("/api/reset", ...); if not state: return None;
\* turn = 0; step = 0; game_log = []
RunGameReset ==
    /\ pc = "idle"
    /\ \E o \in HttpOutcomes :
         LET r == ForgeRequest(o)
         IN  IF "raises" \in DOMAIN r
               THEN /\ pc' = "raised"
                    /\ exception' = r.raises
                    /\ UNCHANGED <<state, game_log, return_value>>
               ELSE /\ state' = r.returns
                    /\ exception' = exception
                    /\ IF StartsRunning(r.returns)
                         THEN /\ pc' = "loop"
                              /\ game_log' = EmptyLog
                              /\ return_value' = return_value
                         ELSE /\ pc' = "returned"
                              /\ return_value' = NoneValue
                              /\ game_log' = game_log
    /\ step' = 0
    /\ UNCHANGED <<action_index, policy_result, policy_type, policyCalls,
                   stepRequests, lastCommand, allSame, log_file, user_input>>
    /\ UNCHANGED otherThanLoop

\* the loop test, step += 1, and the empty-action-list break; the RawStates
\* of HttpStates carry no turn field, so current_turn equals turn (0) and no
\* turn header is appended
LoopTest ==
    /\ pc = "loop"
    /\ IF LoopGuard(state, step)
         THEN /\ step' = step + 1
              /\ IF NoActions(Len(ActionsOf(state)))
                   THEN /\ pc' = "done"
                        /\ game_log' = [game_log EXCEPT !.no_actions = @ + 1]
                   ELSE /\ pc' = "policy"
                        /\ game_log' = game_log
         ELSE /\ pc' = "done"
              /\ step' = step
              /\ game_log' = game_log
    /\ UNCHANGED <<state, action_index, policy_result, policy_type, policyCalls,
                   stepRequests, lastCommand, allSame, exception, log_file,
                   return_value, user_input>>
    /\ UNCHANGED otherThanLoop

\* action_index = policy_request(state)
PolicyReturn ==
    /\ pc = "policy"
    /\ \E o \in PolicyOutcomes :
         /\ policy_result' = PolicyRequest(o).value
         /\ policy_type' = PolicyRequest(o).type
         /\ action_index' = PolicyRequest(o).value
    /\ policyCalls' = policyCalls + 1
    /\ pc' = "submit"
    /\ UNCHANGED <<state, step, stepRequests, lastCommand, allSame, exception,
                   game_log, log_file, return_value, user_input>>
    /\ UNCHANGED otherThanLoop

\* action_index = local_debug_policy(state): one pass of its `while True`
LocalDebugPolicy ==
    /\ pc = "policy"
    /\ \E line \in OperatorInputs :
         /\ user_input' = line
         /\ IF line = EndOfInput \/ StripLower(line.text) = "q"
              THEN \* sys.exit(0)
                   /\ pc' = "exited"
                   /\ UNCHANGED <<action_index, policy_result, policy_type,
                                  policyCalls>>
            ELSE IF /\ StripLower(line.text) \in Numerals
                    /\ DebugIndexValid(IntOf(StripLower(line.text)),
                                       Len(ActionsOf(state)))
              THEN \* return idx
                   /\ pc' = "submit"
                   /\ action_index' = IntOf(StripLower(line.text))
                   /\ policy_result' = IntOf(StripLower(line.text))
                   /\ policy_type' = "int"
                   /\ policyCalls' = policyCalls + 1
            ELSE \* raw JSON dump, invalid index, ValueError: prompt again
                   /\ pc' = "policy"
                   /\ UNCHANGED <<action_index, policy_result, policy_type,
                                  policyCalls>>
    /\ UNCHANGED <<state, step, stepRequests, lastCommand, allSame, exception,
                   game_log, log_file, return_value>>
    /\ UNCHANGED otherThanLoop

\* validate the index, look the action up, log it, send play_action, read the
\* answer
SubmitAction ==
    /\ pc = "submit"
    /\ LET count == Len(ActionsOf(state))
           idx == ValidateIndex(action_index, count)
       IN  IF policy_type # "int"
             THEN \* action_index < 0 raises TypeError
                  /\ pc' = "raised"
                  /\ exception' = "TypeError"
                  /\ UNCHANGED <<state, action_index, stepRequests, lastCommand,
                                 allSame, game_log>>
           ELSE IF ~Indexable(idx, count)
             THEN \* chosen_action = actions[action_index] raises IndexError
                  /\ pc' = "raised"
                  /\ exception' = "IndexError"
                  /\ action_index' = idx
                  /\ UNCHANGED <<state, stepRequests, lastCommand, allSame,
                                 game_log>>
           ELSE /\ action_index' = idx
                /\ lastCommand' = PlayAction(idx)
                /\ stepRequests' = stepRequests + 1
                /\ \E o \in HttpOutcomes :
                     LET r == ForgeRequest(o)
                     IN  IF "raises" \in DOMAIN r
                           THEN /\ pc' = "raised"
                                /\ exception' = r.raises
                                /\ state' = state
                                /\ allSame' = FALSE
                                /\ game_log' = [game_log EXCEPT !.actions = @ + 1]
                           ELSE /\ state' = r.returns
                                /\ exception' = exception
                                /\ allSame' = (allSame /\ r.returns = state)
                                /\ IF Falsy(r.returns)
                                     THEN /\ pc' = "done"
                                          /\ game_log' =
                                               [game_log EXCEPT
                                                  !.actions = @ + 1,
                                                  !.errors = @ + 1]
                                     ELSE /\ pc' = "loop"
                                          /\ game_log' =
                                               [game_log EXCEPT !.actions = @ + 1]
    /\ UNCHANGED <<step, policy_result, policy_type, policyCalls, log_file,
                   return_value, user_input>>
    /\ UNCHANGED otherThanLoop

\* after the loop: write game_log_<time>.txt when game_log is not empty, and
\* return state
SaveAndReturn ==
    /\ pc = "done"
    /\ log_file' = IF game_log = EmptyLog THEN log_file ELSE game_log
    /\ return_value' = state
    /\ pc' = "returned"
    /\ UNCHANGED <<state, step, action_index, policy_result, policy_type,
                   policyCalls, stepRequests, lastCommand, allSame, exception,
                   game_log, user_input>>
    /\ UNCHANGED otherThanLoop

LoopInit ==
    /\ pc = "idle"
    /\ state = NoneValue
    /\ step = 0
    /\ action_index = 0
    /\ policy_result = 0
    /\ policy_type = "int"
    /\ policyCalls = 0
    /\ stepRequests = 0
    /\ lastCommand = NoCommand
    /\ allSame = TRUE
    /\ exception = "none"
    /\ game_log = NoneValue
    /\ log_file = NoneValue
    /\ return_value = NotReturned
    /\ user_input = NoneValue

\* run_game with the policy service as decision source
NextLoop == RunGameReset \/ LoopTest \/ PolicyReturn \/ SubmitAction \/ SaveAndReturn

\* run_game with LOCAL_DEBUG_MODE set: the operator is the decision source
NextDebugLoop ==
    RunGameReset \/ LoopTest \/ LocalDebugPolicy \/ SubmitAction \/ SaveAndReturn

----------------------------------------------------------------------------
(* The engine seen through the subprocess pipe by ForgeEnv *)

\* ForgeEnv's default turn budget
max_turns == 100

\* steps taken per episode before the model stops stepping
MaxEpisodeSteps == 2

\* longest action list the engine offers to ForgeEnv
MaxEnvActions == 1

\* json.loads raised JSONDecodeError on the text that was read
BadJson == [JSONDecodeError |-> TRUE]

\* turn numbers the engine reports
EnvTurns == {1, max_turns}

\* a players list of two players with the given life totals
TwoPlayers(l0, l1) == <<[life |-> l0], [life |-> l1]>>

\* <<player 0 life, player 1 life>> pairs the engine reports
EnvLives == { <<20, 20>>, <<20, 15>>, <<20, 0>>, <<0, 20>>, <<0, 0>> }

\* parsed answers to get_state: running games, games the engine reports over,
\* a state without turn and players, and the empty object
EnvStates ==
    { [turn |-> t, game_over |-> FALSE, players |-> TwoPlayers(l[1], l[2])] :
         t \in EnvTurns, l \in EnvLives }
    \cup { [turn |-> 1, game_over |-> TRUE, players |-> TwoPlayers(l[1], l[2])] :
         l \in { <<20, 20>>, <<20, 0>> } }
    \cup { [phase |-> "MAIN1"], EmptyDict }

\* what _read_response + json.loads yield for get_state
StateResponses == EnvStates \cup {BadJson}

\* what _read_response + json.loads yield for possible_actions
ActionResponses ==
    { [actions |-> ActionList(n)] : n \in 0..MaxEnvActions } \cup {BadJson}

\* action arguments a caller passes to step: step(action: int) accepts any
\* integer, the negative ones included
EnvActions == -1 .. MaxEnvActions

\* keyword arguments ForgeEnv is constructed with
ConstructorCalls ==
    { EmptyDict,
      [max_turns |-> max_turns],
      [max_turns |-> max_turns, reward_mode |-> "sparse"],
      [reward_mode |-> "dense"] }

\* the parameters ForgeEnv.__init__ declares
InitParameters ==
    {"jar_path", "java_home", "player1_is_human", "player2_is_human",
     "max_turns", "render_mode"}

\* the surroundings of a ForgeEnv: the engine's answers to get_state and
\* possible_actions, the action arguments the caller passes to step, how a
\* spawn ends (the process runs, it exits during the 3 s start-up wait, or
\* Popen raises FileNotFoundError), and whether a running process exits
\* within 2 s of terminate().
\* An engine that starts and stays up; it offers no action or MaxEnvActions
\* actions, and the caller passes the first index or the first one past the
\* longest list.
HealthyEngine ==
    [states |-> StateResponses,
     lists |-> { [actions |-> ActionList(n)] : n \in {0, MaxEnvActions} }
                 \cup {BadJson},
     actions |-> {0, MaxEnvActions},
     startups |-> {"running"},
     graceful |-> {TRUE}]

\* answers to get_state of a failing engine: a healthy state, an object
\* without turn and players, text that is not JSON (or no text), and the
\* JSON array []
FaultStateResponses ==
    { [turn |-> 1, game_over |-> FALSE, players |-> TwoPlayers(20, 20)],
      [phase |-> "MAIN1"], BadJson, EmptyList }

\* answers to possible_actions of a failing engine
FaultActionResponses == ActionResponses \cup {EmptyList}

\* an engine that may fail to start, exit, or answer with the wrong shape
FaultyEngine ==
    [states |-> FaultStateResponses,
     lists |-> FaultActionResponses,
     actions |-> EnvActions,
     startups |-> {"running", "exited", "FileNotFoundError"},
     graceful |-> BOOLEAN]

PassPriority == [cmd |-> "pass_priority"]

\* _close_process was not run, or found no process
NoTeardown == [concedes |-> 0]

NoResult == [kind |-> "none"]

----------------------------------------------------------------------------
(* ForgeEnv *)

\* the win/loss part of the dense reward, in tenths
GameEndReward(curr_p0_life, curr_p1_life) ==
    IF curr_p1_life <= 0 THEN 100
    ELSE IF curr_p0_life <= 0 THEN 0 - 100
    ELSE 0

\* OpponentLifeReward with the comparison turned round (pays for life gained)
OpponentLifeRewardReversed(prev_p1_life, curr_p1_life) ==
    IF curr_p1_life > prev_p1_life THEN curr_p1_life - prev_p1_life ELSE 0

\* reward for life the opponent lost, in tenths
OpponentLifeReward(prev_p1_life, curr_p1_life) ==
    IF curr_p1_life < prev_p1_life THEN prev_p1_life - curr_p1_life ELSE 0

\* penalty for life the agent lost, in tenths
SelfLifePenalty(prev_p0_life, curr_p0_life) ==
    IF curr_p0_life < prev_p0_life THEN prev_p0_life - curr_p0_life ELSE 0

\* CalculateReward without the test of previous_state: a missing previous
\* state is read as the default 20/20
CalculateRewardNoPreviousTest(prev, curr) ==
    IF Falsy(curr) THEN 0
    ELSE LET prev_players == Get(prev, "players", <<EmptyDict, EmptyDict>>)
             curr_players == Get(curr, "players", <<EmptyDict, EmptyDict>>)
         IN  IF Len(prev_players) >= 2 /\ Len(curr_players) >= 2
               THEN OpponentLifeReward(Get(prev_players[2], "life", 20),
                                       Get(curr_players[2], "life", 20))
                      - SelfLifePenalty(Get(prev_players[1], "life", 20),
                                        Get(curr_players[1], "life", 20))
                      + GameEndReward(Get(curr_players[1], "life", 20),
                                      Get(curr_players[2], "life", 20))
               ELSE 0

\* _calculate_reward(previous_state, current_state), in tenths
CalculateReward(prev, curr) ==
    IF Falsy(prev) \/ Falsy(curr) THEN 0
    ELSE LET prev_players == Get(prev, "players", <<EmptyDict, EmptyDict>>)
             curr_players == Get(curr, "players", <<EmptyDict, EmptyDict>>)
         IN  IF Len(prev_players) >= 2 /\ Len(curr_players) >= 2
               THEN LET prev_p0_life == Get(prev_players[1], "life", 20)
                        curr_p0_life == Get(curr_players[1], "life", 20)
                        prev_p1_life == Get(prev_players[2], "life", 20)
                        curr_p1_life == Get(curr_players[2], "life", 20)
                    IN  OpponentLifeReward(prev_p1_life, curr_p1_life)
                          - SelfLifePenalty(prev_p0_life, curr_p0_life)
                          + GameEndReward(curr_p0_life, curr_p1_life)
               ELSE 0

\* _is_terminated() on self.current_state
IsTerminated(cs) ==
    IF Falsy(cs) THEN TRUE
    ELSE LET players == Get(cs, "players", <<>>)
         IN  \E i \in 1..Len(players) : Get(players[i], "life", 20) <= 0

\* IsTruncated with the budget compared by > (one turn late)
IsTruncatedStrict(turns) == turns > max_turns

\* truncated = self.episode_turns >= self.max_turns
IsTruncated(turns) == turns >= max_turns

\* phase_map of _get_observation
phase_map ==
    [p \in {"UNTAP", "UPKEEP", "DRAW", "MAIN1", "COMBAT_BEGIN",
            "COMBAT_DECLARE_ATTACKERS", "COMBAT_DECLARE_BLOCKERS",
            "COMBAT_FIRST_STRIKE_DAMAGE", "COMBAT_DAMAGE", "COMBAT_END",
            "MAIN2", "END_OF_TURN", "CLEANUP"} |->
        CASE p = "UNTAP" -> 0
          [] p = "UPKEEP" -> 1
          [] p = "DRAW" -> 2
          [] p = "MAIN1" -> 3
          [] p = "COMBAT_BEGIN" -> 4
          [] p = "COMBAT_DECLARE_ATTACKERS" -> 5
          [] p = "COMBAT_DECLARE_BLOCKERS" -> 6
          [] p = "COMBAT_FIRST_STRIKE_DAMAGE" -> 7
          [] p = "COMBAT_DAMAGE" -> 8
          [] p = "COMBAT_END" -> 9
          [] p = "MAIN2" -> 3
          [] p = "END_OF_TURN" -> 1
          [] p = "CLEANUP" -> 1]

\* PhaseCode with 10 as the code of a phase the table does not hold
PhaseCodeDefaultTen(cs) ==
    Get(phase_map, Get(cs, "phase", "UNTAP"), 10)

\* phase_map.get(self.current_state.get('phase', 'UNTAP'), 0)
PhaseCode(cs) ==
    Get(phase_map, Get(cs, "phase", "UNTAP"), 0)

\* _get_observation(): the fields the claims read
GetObservation(cs) ==
    IF Falsy(cs)
      THEN [turn |-> 0, phase |-> 0, player_0_life |-> 20, player_1_life |-> 20]
      ELSE LET players == Get(cs, "players", <<EmptyDict, EmptyDict>>)
           IN  [turn |-> Get(cs, "turn", 0),
                phase |-> PhaseCode(cs),
                player_0_life |->
                    IF Len(players) > 0 THEN Get(players[1], "life", 20) ELSE 20,
                player_1_life |->
                    IF Len(players) > 1 THEN Get(players[2], "life", 20) ELSE 20]

\* the state _update_state stores for an answer to get_state
StoredState(resp) == IF resp = BadJson THEN EmptyDict ELSE resp

\* the turn count _update_state stores: untouched when the answer does not parse
StoredTurns(resp, turns) == IF resp = BadJson THEN turns ELSE Get(resp, "turn", 0)

\* the action list _update_state stores for an answer to possible_actions
StoredActions(aresp) == IF aresp = BadJson THEN <<>> ELSE Get(aresp, "actions", <<>>)

\* the command step writes for an action argument
ActionCommand(action, actions) ==
    IF action < Len(actions) THEN PlayAction(action) ELSE PassPriority

\* what the traces keep of a fetched state: the lives its observation shows, and
\* whether the state was empty (the observation then shows the defaults)
TraceEntry(cs) ==
    [lives |-> <<GetObservation(cs).player_0_life, GetObservation(cs).player_1_life>>,
     empty |-> Falsy(cs)]

\* json.loads returned something that has no .get method
NotADict(resp) == resp = EmptyList

\* _update_state() for the two answers read: the attributes it leaves, and
\* the exception that leaves it (only json.JSONDecodeError is caught)
UpdateState(resp, aresp, actions, turns) ==
    IF NotADict(resp)
      THEN \* self.current_state.get('turn', 0) raises AttributeError
           [current_state |-> resp, episode_turns |-> turns,
            current_actions |-> actions, raises |-> "AttributeError"]
    ELSE IF NotADict(aresp)
      THEN \* actions_data.get('actions', []) raises AttributeError
           [current_state |-> StoredState(resp),
            episode_turns |-> StoredTurns(resp, turns),
            current_actions |-> actions, raises |-> "AttributeError"]
    ELSE [current_state |-> StoredState(resp),
          episode_turns |-> StoredTurns(resp, turns),
          current_actions |-> StoredActions(aresp), raises |-> "none"]

\* ConcedeRaises without the try/except around the concede command
ConcedeRaisesOnBrokenPipe(alive) == ~alive

\* whether the concede command of _close_process raises: the write to the
\* pipe of an exited process fails, and `except: pass` swallows it
ConcedeRaises(alive) == FALSE

\* AliveAfterClose without kill() after the wait timed out
AliveAfterCloseNoKill(alive, graceful) == alive /\ ~graceful

\* whether the engine still runs when _close_process returns
AliveAfterClose(alive, graceful) ==
    IF ~alive THEN FALSE            \* it had exited before
    ELSE IF graceful THEN FALSE     \* terminate(); wait(timeout=2) returned
    ELSE FALSE                      \* TimeoutExpired: kill(); wait()

\* _close_process() on a held process: one concede command is written
\* (delivered when the engine still reads its pipe), then terminate/kill
CloseProcess(alive, graceful) ==
    [concedes |-> 1,
     delivered |-> alive,
     killed |-> alive /\ ~graceful,
     raised |-> ConcedeRaises(alive),
     alive_after |-> AliveAfterClose(alive, graceful)]

\* TurnsAtReset leaving the turn count of the episode before
TurnsAtResetKept(turns) == turns

\* self.episode_turns = 0 in reset, before the first state is fetched
TurnsAtReset(turns) == 0

\* HoldsProcess without the test: step goes on to write its command
HoldsProcessAlways(p) == TRUE

\* `self.process is None` is false: an engine process is held
HoldsProcess(p) == p # "None"

\* ForgeEnv(**kw): a keyword __init__ does not declare raises TypeError
Construct ==
    /\ constructed = "no"
    /\ \E kw \in ConstructorCalls :
         /\ kwargs' = kw
         /\ constructed' = IF DOMAIN kw \subseteq InitParameters THEN "yes"
                           ELSE "TypeError"
    /\ UNCHANGED <<process, current_state, current_actions, episode_turns,
                   previous_state, command, result, lifeTrace, rewardTrace,
                   call, procAlive, orphans, teardown>>
    /\ UNCHANGED otherThanEnv

\* reset(): close the process of the previous episode, spawn the engine,
\* fetch the first state and action list
ResetWith(engine) ==
    /\ constructed = "yes"
    /\ call' = "reset"
    /\ previous_state' = NoneValue
    /\ command' = NoCommand
    /\ rewardTrace' = <<>>
    /\ \E graceful \in engine.graceful, start \in engine.startups,
          resp \in engine.states, aresp \in engine.lists :
         LET td == IF process = "None" THEN NoTeardown
                   ELSE CloseProcess(procAlive, graceful)
             u == UpdateState(resp, aresp, current_actions,
                              TurnsAtReset(episode_turns))
         IN  /\ teardown' = td
             /\ IF td # NoTeardown /\ td.raised
                  THEN \* _close_process raised
                       /\ result' = [kind |-> "BrokenPipeError"]
                       /\ lifeTrace' = <<>>
                       /\ UNCHANGED <<process, procAlive, orphans, current_state,
                                      current_actions, episode_turns>>
                ELSE /\ orphans' = IF td # NoTeardown /\ td.alive_after
                                     THEN orphans + 1 ELSE orphans
                     /\ IF start = "FileNotFoundError"
                          THEN \* subprocess.Popen raised
                               /\ process' = "None"
                               /\ procAlive' = FALSE
                               /\ result' = [kind |-> "FileNotFoundError"]
                               /\ lifeTrace' = <<>>
                               /\ UNCHANGED <<current_state, current_actions,
                                              episode_turns>>
                        ELSE IF start = "exited"
                          THEN \* the write of get_state raises BrokenPipeError
                               /\ process' = "running"
                               /\ procAlive' = FALSE
                               /\ episode_turns' = TurnsAtReset(episode_turns)
                               /\ result' = [kind |-> "BrokenPipeError"]
                               /\ lifeTrace' = <<>>
                               /\ UNCHANGED <<current_state, current_actions>>
                        ELSE /\ process' = "running"
                             /\ procAlive' = TRUE
                             /\ current_state' = u.current_state
                             /\ episode_turns' = u.episode_turns
                             /\ current_actions' = u.current_actions
                             /\ IF u.raises # "none"
                                  THEN /\ result' = [kind |-> u.raises]
                                       /\ lifeTrace' = <<>>
                                  ELSE /\ result' =
                                            [kind |-> "reset",
                                             observation |->
                                                 GetObservation(u.current_state)]
                                       /\ lifeTrace' =
                                            <<TraceEntry(u.current_state)>>
    /\ UNCHANGED <<constructed, kwargs>>
    /\ UNCHANGED otherThanEnv

\* step(action): write the command, fetch the state, compute the StepResult
StepWith(engine) ==
    /\ constructed = "yes"
    /\ Len(rewardTrace) < MaxEpisodeSteps
    /\ call' = "step"
    /\ teardown' = NoTeardown
    /\ IF ~HoldsProcess(process)
         THEN \* raise RuntimeError("Environment not initialized. ...")
              /\ result' = [kind |-> "RuntimeError"]
              /\ UNCHANGED <<current_state, current_actions, episode_turns,
                             previous_state, command, lifeTrace, rewardTrace>>
       ELSE IF ~procAlive
         THEN \* the write of the command raises BrokenPipeError
              /\ result' = [kind |-> "BrokenPipeError"]
              /\ UNCHANGED <<current_state, current_actions, episode_turns,
                             previous_state, command, lifeTrace, rewardTrace>>
       ELSE \E action \in engine.actions, resp \in engine.states,
               aresp \in engine.lists :
              LET prev == IF Falsy(current_state) THEN NoneValue ELSE current_state
                  u == UpdateState(resp, aresp, current_actions, episode_turns)
                  curr == u.current_state
                  turns == u.episode_turns
                  reward == CalculateReward(prev, curr)
              IN  /\ command' = ActionCommand(action, current_actions)
                  /\ previous_state' = prev
                  /\ current_state' = curr
                  /\ episode_turns' = turns
                  /\ current_actions' = u.current_actions
                  /\ IF u.raises # "none"
                       THEN /\ result' = [kind |-> u.raises]
                            /\ UNCHANGED <<lifeTrace, rewardTrace>>
                       ELSE /\ result' = [kind |-> "step",
                                          action_taken |-> action,
                                          observation |-> GetObservation(curr),
                                          reward |-> reward,
                                          terminated |-> IsTerminated(curr),
                                          truncated |-> IsTruncated(turns)]
                            /\ lifeTrace' = Append(lifeTrace, TraceEntry(curr))
                            /\ rewardTrace' = Append(rewardTrace, reward)
    /\ UNCHANGED <<constructed, kwargs, process, procAlive, orphans>>
    /\ UNCHANGED otherThanEnv

\* close(): _close_process()
Close ==
    /\ constructed = "yes"
    /\ call' = "close"
    /\ IF process = "None"
         THEN /\ teardown' = NoTeardown
              /\ result' = [kind |-> "close"]
              /\ UNCHANGED <<process, procAlive, orphans>>
         ELSE \E graceful \in BOOLEAN :
                LET td == CloseProcess(procAlive, graceful)
                IN  /\ teardown' = td
                    /\ IF td.raised
                         THEN /\ result' = [kind |-> "BrokenPipeError"]
                              /\ UNCHANGED <<process, procAlive, orphans>>
                         ELSE /\ result' = [kind |-> "close"]
                              /\ process' = "None"
                              /\ procAlive' = FALSE
                              /\ orphans' = IF td.alive_after THEN orphans + 1
                                            ELSE orphans
    /\ UNCHANGED <<constructed, kwargs, current_state, current_actions,
                   episode_turns, previous_state, command, lifeTrace, rewardTrace>>
    /\ UNCHANGED otherThanEnv

\* the engine process exits on its own (the game ended, or it crashed)
EngineExits ==
    /\ process = "running"
    /\ procAlive
    /\ procAlive' = FALSE
    /\ UNCHANGED <<constructed, kwargs, process, current_state, current_actions,
                   episode_turns, previous_state, command, result, lifeTrace,
                   rewardTrace, call, orphans, teardown>>
    /\ UNCHANGED otherThanEnv

\* reset() and step() against an engine that starts, stays up and answers
Reset == ResetWith(HealthyEngine)

Step == StepWith(HealthyEngine)

\* reset() and step() against an engine that may fail
ResetFaulty == ResetWith(FaultyEngine)

StepFaulty == StepWith(FaultyEngine)

EnvInit ==
    /\ constructed = "no"
    /\ kwargs = EmptyDict
    /\ process = "None"
    /\ current_state = NoneValue
    /\ current_actions = <<>>
    /\ episode_turns = 0
    /\ previous_state = NoneValue
    /\ command = NoCommand
    /\ result = NoResult
    /\ lifeTrace = <<>>
    /\ rewardTrace = <<>>
    /\ call = "none"
    /\ procAlive = FALSE
    /\ orphans = 0
    /\ teardown = NoTeardown

NextEnv == Construct \/ Reset \/ Step

\* ForgeEnv with close(), against an engine that may fail or exit
NextEnvFaults == Construct \/ ResetFaulty \/ StepFaulty \/ Close \/ EngineExits

----------------------------------------------------------------------------
(* _calculate_reward applied to arbitrary pairs of states *)

\* life totals given to the reward function
RewardLives == {0 - 5, 0, 15, 20}

\* states given to the reward function: two-player states, a one-player state,
\* a state without players, the empty state and None
RewardStates ==
    { [turn |-> 1, players |-> TwoPlayers(l0, l1)] :
         l0 \in RewardLives, l1 \in RewardLives }
    \cup { [turn |-> 1, players |-> <<[life |-> 0]>>],
           [turn |-> 1, players |-> <<EmptyDict, [life |-> 15]>>],
           [turn |-> 1],
           EmptyDict,
           NoneValue }

\* reward = self._calculate_reward(previous_state, current_state)
EvaluateReward ==
    /\ rw_out = NoneValue
    /\ rw_out' = [reward |-> CalculateReward(rw_prev, rw_curr)]
    /\ UNCHANGED <<rw_prev, rw_curr>>
    /\ UNCHANGED otherThanReward

RewardIdle ==
    /\ rw_prev = NoneValue
    /\ rw_curr = EmptyDict
    /\ rw_out = NoneValue

RewardInit ==
    /\ rw_prev \in RewardStates
    /\ rw_curr \in RewardStates \ {NoneValue}
    /\ rw_out = NoneValue

NextReward == EvaluateReward

----------------------------------------------------------------------------
(* The action list of the payloads built by policy_request and
   local_debug_policy *)

\* longest action list given to the payload builders
MaxListed == 3

\* engine action descriptors: complete ones, and one without any field
ListedDescriptors ==
    { [type |-> "pass_priority", card_name |-> ""],
      [type |-> "play_land", card_name |-> "Forest"],
      [type |-> "cast_spell", card_name |-> "Shock", mana_cost |-> "R"],
      EmptyDict }

\* RawStates given to the payload builders: every action list of up to
\* MaxListed descriptors, and a state without possible_actions
ListedStates ==
    { [possible_actions |-> [actions |-> l]] :
         l \in UNION { [1..n -> ListedDescriptors] : n \in 0..MaxListed } }
    \cup { [game_over |-> FALSE] }

\* PolicyActions numbering the entries from 1
PolicyActionsFromOne(game_state) ==
    LET actions == ActionsOf(game_state)
    IN  [k \in 1..Len(actions) |->
            [index |-> k,
             type |-> Get(actions[k], "type", "unknown"),
             card |-> Get(actions[k], "card_name", ""),
             mana_cost |-> Get(actions[k], "mana_cost", ""),
             requires_targets |-> Get(actions[k], "requires_targets", FALSE)]]

\* actionState.possible_actions of policy_request: enumerate() counts from 0,
\* sequence position k is Python position k - 1
PolicyActions(game_state) ==
    LET actions == ActionsOf(game_state)
    IN  [k \in 1..Len(actions) |->
            [index |-> k - 1,
             type |-> Get(actions[k], "type", "unknown"),
             card |-> Get(actions[k], "card_name", ""),
             mana_cost |-> Get(actions[k], "mana_cost", ""),
             requires_targets |-> Get(actions[k], "requires_targets", FALSE)]]

\* actionState.possible_actions of local_debug_policy
DebugActions(game_state) ==
    LET actions == ActionsOf(game_state)
    IN  [k \in 1..Len(actions) |->
            [index |-> k - 1,
             type |-> Get(actions[k], "type", "unknown"),
             card |-> Get(actions[k], "card_name", ""),
             description |-> Get(actions[k], "description", ""),
             mana_cost |-> Get(actions[k], "mana_cost", ""),
             is_instant |-> Get(actions[k], "is_instant", FALSE),
             requires_targets |-> Get(actions[k], "requires_targets", FALSE)]]

\* policy_request builds its payload
BuildPolicyPayload ==
    /\ nz_policy = NoneValue
    /\ nz_policy' = [possible_actions |-> PolicyActions(nz_state)]
    /\ UNCHANGED <<nz_state, nz_debug>>
    /\ UNCHANGED otherThanNormalize

\* local_debug_policy builds its payload
BuildDebugPayload ==
    /\ nz_debug = NoneValue
    /\ nz_debug' = [possible_actions |-> DebugActions(nz_state)]
    /\ UNCHANGED <<nz_state, nz_policy>>
    /\ UNCHANGED otherThanNormalize

NormalizeIdle ==
    /\ nz_state = EmptyDict
    /\ nz_policy = NoneValue
    /\ nz_debug = NoneValue

NormalizeInit ==
    /\ nz_state \in ListedStates
    /\ nz_policy = NoneValue
    /\ nz_debug = NoneValue

NextNormalize == BuildPolicyPayload \/ BuildDebugPayload

----------------------------------------------------------------------------------------------------------------------------------------
(* _get_observation applied to states of every phase *)

\* phase strings an engine reports: the thirteen of phase_map, and strings
\* the table does not hold (another spelling, another name, the empty string)
PhaseStrings == DOMAIN phase_map \cup {"untap", "Main Phase 1", ""}

\* states given to _get_observation: every phase string in states with and
\* without turn and players, states without phase, and the empty state
ObservedStates ==
    { [phase |-> p, turn |-> t, players |-> TwoPlayers(20, l)] :
         p \in PhaseStrings, t \in EnvTurns, l \in {20, 0} }
    \cup { [phase |-> p] : p \in PhaseStrings }
    \cup { [turn |-> 1, players |-> TwoPlayers(20, 20)], [turn |-> 1], EmptyDict }

\* observation = self._get_observation()
Observe ==
    /\ ob_out = NoneValue
    /\ ob_out' = GetObservation(ob_state)
    /\ UNCHANGED ob_state
    /\ UNCHANGED otherThanObservation

ObservationIdle ==
    /\ ob_state = EmptyDict
    /\ ob_out = NoneValue

ObservationInit ==
    /\ ob_state \in ObservedStates
    /\ ob_out = NoneValue

NextObservation == Observe

----------------------------------------------------------------------------
(* The commands ForgeEnv writes and the answers it reads. Every answer is a
   JSON document on one line, and it is on the pipe before the sleep that
   follows the command ends. *)

\* steps per episode before the model stops stepping
MaxWireSteps == 3

\* the engine's answer to the n-th command written to it
Answer(cmd, n) == [to |-> cmd, n |-> n]

\* the n-th command, written to stdin
WriteEvent(cmd, n) == [op |-> "write", cmd |-> cmd, n |-> n, got |-> <<>>]

\* a read, and the answers whose lines it returned
ReadEvent(got) == [op |-> "read", cmd |-> "none", n |-> 0, got |-> got]

\* how the engine treats get_state and possible_actions: it answers, or it
\* writes nothing
QueryBehaviours == {"prompt", "silent"}

\* how the engine treats play_action and pass_priority: it answers, or it
\* executes the command without writing anything
ActionBehaviours == {"prompt", "silent"}

\* the pipes of a process just spawned
FreshWire == [out |-> <<>>, buf |-> <<>>, sent |-> 0, log |-> <<>>]

\* _send_command(cmd): the line is written and flushed; the engine answers
\* as its behaviour says
WireSend(w, cmd, behaviour) ==
    LET n == w.sent + 1
    IN  [out |-> IF behaviour = "prompt" THEN Append(w.out, Answer(cmd, n))
                 ELSE w.out,
         buf |-> w.buf,
         sent |-> n,
         log |-> Append(w.log, WriteEvent(cmd, n))]

\* the lines _read_response returns. select() watches the pipe, readline()
\* serves the stream's buffer first and moves the whole pipe into the buffer
\* when the buffer is empty. A one-line document is no terminator line, so
\* the loop runs until the timeout: nothing is read while the pipe is empty;
\* otherwise every buffered line is read, then the first line of the pipe
WireGot(w) == IF w.out = <<>> THEN <<>> ELSE Append(w.buf, Head(w.out))

\* _read_response(): the rest of the pipe stays in the stream's buffer
WireRead(w) ==
    [out |-> <<>>,
     buf |-> IF w.out = <<>> THEN w.buf ELSE Tail(w.out),
     sent |-> w.sent,
     log |-> Append(w.log, ReadEvent(WireGot(w)))]

\* _update_state(): get_state, read, possible_actions, read
WireUpdateState(w, b_state, b_actions) ==
    WireRead(WireSend(WireRead(WireSend(w, "get_state", b_state)),
                      "possible_actions", b_actions))

\* reset(): concede to the process of the previous episode, spawn a new
\* one, _update_state()
WireReset ==
    /\ \E b_state \in QueryBehaviours, b_actions \in QueryBehaviours :
         LET conceded == IF wr_process = "None" THEN <<>>
                         ELSE <<WriteEvent("concede", wr_sent + 1)>>
             w == WireUpdateState(FreshWire, b_state, b_actions)
         IN  /\ wr_out' = w.out
             /\ wr_buf' = w.buf
             /\ wr_sent' = w.sent
             /\ wr_log' = conceded \o w.log
    /\ wr_process' = "running"
    /\ wr_steps' = 0
    /\ UNCHANGED otherThanWire

\* step(action): the action command, then _update_state()
WireStep ==
    /\ wr_steps < MaxWireSteps
    /\ IF wr_process = "None"
         THEN \* raise RuntimeError
              /\ wr_log' = <<>>
              /\ UNCHANGED <<wr_out, wr_buf, wr_sent, wr_steps>>
         ELSE \E cmd \in {"play_action", "pass_priority"},
                 b_action \in ActionBehaviours,
                 b_state \in QueryBehaviours, b_actions \in QueryBehaviours :
                LET held == [out |-> wr_out, buf |-> wr_buf, sent |-> wr_sent,
                             log |-> <<>>]
                    w == WireUpdateState(WireSend(held, cmd, b_action),
                                         b_state, b_actions)
                IN  /\ wr_out' = w.out
                    /\ wr_buf' = w.buf
                    /\ wr_sent' = w.sent
                    /\ wr_log' = w.log
                    /\ wr_steps' = wr_steps + 1
    /\ UNCHANGED wr_process
    /\ UNCHANGED otherThanWire

\* close(): concede, terminate the process, drop it
WireClose ==
    /\ wr_process = "running"
    /\ wr_log' = <<WriteEvent("concede", wr_sent + 1)>>
    /\ wr_process' = "None"
    /\ wr_out' = <<>>
    /\ wr_buf' = <<>>
    /\ wr_sent' = 0
    /\ wr_steps' = 0
    /\ UNCHANGED otherThanWire

WireIdle ==
    /\ wr_process = "None"
    /\ wr_out = <<>>
    /\ wr_buf = <<>>
    /\ wr_sent = 0
    /\ wr_log = <<>>
    /\ wr_steps = 0

NextWire == WireReset \/ WireStep \/ WireClose

----------------------------------------------------------------------------
(* _read_response, one loop iteration at a time, on the lines of one answer *)

\* most members of a JSON object the engine pretty-prints
MaxMembers == 1

\* timeout of _read_response (2.0 s), in tenths of a second
timeout == 20

\* timeout of one select() call (0.1 s), in tenths of a second
select_wait == 1

\* a line of text ending in a newline
TextLine(t) == [text |-> t, newline |-> TRUE]

\* text the engine wrote without a newline after it
Partial(t) == [text |-> t, newline |-> FALSE]

\* line.strip()
Strip(t) ==
    IF t = "  }" THEN "}"
    ELSE IF t = "  p: {" THEN "p: {"
    ELSE IF t = "    k: v" THEN "k: v"
    ELSE IF t = "  k: v" THEN "k: v"
    ELSE t

\* line.strip() in ["}", "]"]
IsEndMarker(line) == Strip(line.text) \in {"}", "]"}

\* a JSON document on one line
OneLineDocument == << TextLine("{}") >>

\* a pretty-printed object of n scalar members
FlatDocument(n) ==
    << TextLine("{") >> \o [i \in 1..n |-> TextLine("  k: v")] \o << TextLine("}") >>

\* a pretty-printed object whose only member is an object of n members: the
\* inner object closes on an indented line of its own
NestedDocument(n) ==
    << TextLine("{"), TextLine("  p: {") >> \o [i \in 1..n |-> TextLine("    k: v")]
        \o << TextLine("  }"), TextLine("}") >>

\* the complete JSON documents an engine answers with
Documents ==
    {OneLineDocument} \cup { FlatDocument(n) : n \in 0..MaxMembers }
        \cup { NestedDocument(n) : n \in 0..MaxMembers }

\* what an engine writes in answer to one command: a document, nothing, or
\* the beginning of a line
Emissions == Documents \cup { <<>>, << Partial("{") >> }

\* the ways the lines of an answer reach the pipe: in one write, line by
\* line, or in any other runs of consecutive lines
RECURSIVE Chunkings(_)
Chunkings(lines) ==
    IF lines = <<>> THEN { <<>> }
    ELSE UNION { { << SubSeq(lines, 1, k) >> \o rest :
                     rest \in Chunkings(SubSeq(lines, k + 1, Len(lines))) } :
                 k \in 1..Len(lines) }

\* the engine writes its next chunk
EngineWrites ==
    /\ rd_process
    /\ rd_pc # "returned"
    /\ rd_plan # <<>>
    /\ rd_pipe' = rd_pipe \o Head(rd_plan)
    /\ rd_plan' = Tail(rd_plan)
    /\ UNCHANGED <<rd_process, rd_doc, rd_exits, rd_buf, rd_eof, rd_lines,
                   rd_clock, rd_pc>>
    /\ UNCHANGED otherThanRead

\* the engine exits after its last chunk
EngineCloses ==
    /\ rd_process
    /\ rd_pc # "returned"
    /\ rd_plan = <<>>
    /\ rd_exits
    /\ ~rd_eof
    /\ rd_eof' = TRUE
    /\ UNCHANGED <<rd_process, rd_doc, rd_plan, rd_exits, rd_pipe, rd_buf,
                   rd_lines, rd_clock, rd_pc>>
    /\ UNCHANGED otherThanRead

\* the guard of the function, the loop test and select(): select reports
\* the stream ready when the pipe holds data or is at end of file; it does
\* not see the stream's buffer
ReadSelect ==
    /\ rd_pc = "select"
    /\ IF ~rd_process
         THEN \* return ""
              /\ rd_pc' = "returned"
              /\ UNCHANGED rd_clock
       ELSE IF ~(rd_clock < timeout)
         THEN \* the loop ends: return "".join(response_lines)
              /\ rd_pc' = "returned"
              /\ UNCHANGED rd_clock
       ELSE IF rd_pipe # <<>> \/ rd_eof
         THEN /\ rd_pc' = "readline"
              /\ UNCHANGED rd_clock
       ELSE \* select waited 0.1 s for nothing
            /\ rd_clock' = rd_clock + select_wait
            /\ UNCHANGED rd_pc
    /\ UNCHANGED <<rd_process, rd_doc, rd_plan, rd_exits, rd_pipe, rd_buf,
                   rd_eof, rd_lines>>
    /\ UNCHANGED otherThanRead

\* the buffer holds a whole line: readline() returns it without reading
\* the pipe
Buffered(buf) == buf # <<>> /\ Head(buf).newline

\* readline(), and what the loop does with the line. readline() returns the
\* first buffered line; with no whole line buffered it moves the pipe into
\* the buffer and returns when the buffer holds a whole line or the pipe is
\* at end of file, and blocks until then. A readline() that had to block
\* returns after an unknown time. An empty line (end of file) is dropped,
\* and the loop spins until the clock has run out: a spin counts as one
\* select interval.
ReadLine ==
    /\ rd_pc \in {"readline", "blocked"}
    /\ LET all == IF Buffered(rd_buf) THEN rd_buf ELSE rd_buf \o rd_pipe
           pipe == IF Buffered(rd_buf) THEN rd_pipe ELSE <<>>
       IN  IF Buffered(all)
             THEN /\ rd_lines' = Append(rd_lines, Head(all))
                  /\ rd_buf' = Tail(all)
                  /\ rd_pipe' = pipe
                  /\ rd_pc' = IF IsEndMarker(Head(all)) THEN "returned"
                              ELSE "select"
                  /\ IF rd_pc = "blocked"
                       THEN rd_clock' \in {rd_clock, timeout}
                       ELSE UNCHANGED rd_clock
           ELSE IF rd_eof
             THEN /\ rd_lines' = rd_lines \o all
                  /\ rd_buf' = <<>>
                  /\ rd_pipe' = <<>>
                  /\ rd_pc' = "select"
                  /\ IF rd_pc = "blocked"
                       THEN rd_clock' \in {rd_clock, timeout}
                       ELSE rd_clock' = IF all = <<>>
                                          THEN rd_clock + select_wait
                                          ELSE rd_clock
           ELSE \* no newline and no end of file: readline() blocks
                /\ rd_pc = "readline"
                /\ rd_pc' = "blocked"
                /\ rd_buf' = all
                /\ rd_pipe' = <<>>
                /\ UNCHANGED <<rd_lines, rd_clock>>
    /\ UNCHANGED <<rd_process, rd_doc, rd_plan, rd_exits, rd_eof>>
    /\ UNCHANGED otherThanRead

\* no call of _read_response
ReadIdle ==
    /\ rd_process = FALSE
    /\ rd_doc = <<>>
    /\ rd_plan = <<>>
    /\ rd_exits = FALSE
    /\ rd_pipe = <<>>
    /\ rd_buf = <<>>
    /\ rd_eof = FALSE
    /\ rd_lines = <<>>
    /\ rd_clock = 0
    /\ rd_pc = "returned"

\* _read_response is called after a command was written: without a process,
\* or with an engine that writes an answer in some chunks and then exits
\* or stays
ReadInit ==
    /\ rd_process \in BOOLEAN
    /\ rd_doc \in Emissions
    /\ rd_plan \in Chunkings(rd_doc)
    /\ rd_exits \in BOOLEAN
    /\ ~rd_process => rd_doc = <<>> /\ ~rd_exits
    /\ rd_pipe = <<>>
    /\ rd_buf = <<>>
    /\ rd_eof = FALSE
    /\ rd_lines = <<>>
    /\ rd_clock = 0
    /\ rd_pc = "select"

\* the steps of _read_response itself
ReadResponse == ReadSelect \/ ReadLine

NextRead == EngineWrites \/ EngineCloses \/ ReadSelect \/ ReadLine

----------------------------------------------------------------------------
(* Claims about run_game *)

\* the engine state never ended the game and offers at least one action
NonTerminal(s) == ~Falsy(s) /\ ~GameOver(s) /\ Len(ActionsOf(s)) >= 1

\* C1: whenever the action list has N >= 1 entries and the decision source
\* returned an integer i with i < 0 or i >= N, the request sent is
\* `play_action 0`, nothing is raised, and the loop goes on to its next test
\* unless the request itself failed.
C1_BadIndexPlaysZero ==
    [][ ( /\ pc = "submit"
          /\ policy_type = "int"
          /\ Len(ActionsOf(state)) >= 1
          /\ (action_index < 0 \/ action_index >= Len(ActionsOf(state))) )
        => ( /\ lastCommand' = PlayAction(0)
             /\ stepRequests' = stepRequests + 1
             /\ exception' \notin {"IndexError", "TypeError"}
             /\ pc' \in {"loop", "done", "raised"}
             /\ (exception' = "none" /\ ~Falsy(state') => pc' = "loop") ) ]_vars

\* C1 witness: an index past the end was returned, `play_action 0` was sent
\* and the loop is back at its test.
C1_Witness ==
    /\ pc = "loop"
    /\ policy_result = MaxActions
    /\ lastCommand = PlayAction(0)
    /\ stepRequests >= 2

\* the counters of run_game stay under the ceiling, and a run against an
\* engine that always answered with one non-terminal state ends after
\* exactly max_steps requests
StepCeiling ==
    /\ stepRequests <= max_steps
    /\ step <= max_steps
    /\ (pc \in {"done", "returned"} /\ allSame /\ NonTerminal(state)
           => stepRequests = max_steps)

\* C2: run_game always terminates; against an engine that answers every request
\* with the same non-terminal state it is done after exactly 500 submitted
\* actions, and no run sends more than 500 /api/step requests.
C2_TerminatesAtCeiling == <>(pc \in {"returned", "raised"}) /\ []StepCeiling

\* C2 witness: the stuck-engine run has ended at the ceiling.
C2_Witness ==
    /\ pc = "done"
    /\ allSame
    /\ NonTerminal(state)
    /\ stepRequests = max_steps

\* some player's life total in a RawState is at or below zero
LifeAtOrBelowZero(s) ==
    \/ Get(Get(s, "player1", EmptyDict), "life", 20) <= 0
    \/ Get(Get(s, "player2", EmptyDict), "life", 20) <= 0

\* C9: once the most recent engine state has game_over true or shows a
\* player's life at or below zero, run_game sends no further /api/step request.
C9_NoSubmitAfterTerminalState ==
    [][ (~Falsy(state) /\ (GameOver(state) \/ LifeAtOrBelowZero(state)))
        => stepRequests' = stepRequests ]_vars

\* C14: forge_request never raises: a timeout while the body is read and
\* a body that is not JSON are returned as the failure marker None, so no
\* such exception ever leaves run_game.
C14_ForgeRequestNeverRaises ==
    exception \notin {"socket.timeout", "JSONDecodeError"}

\* C15: the value policy_request hands to run_game is always an integer (0
\* for a field that is not an integer), and run_game does not raise because of
\* it.
C15_PolicyValueIsInteger == policy_type = "int" /\ exception # "TypeError"

\* the loop is at its test with a state whose game_over is false and whose
\* action list is empty
EmptyListSeen ==
    pc = "loop" /\ ~GameOver(state) /\ Len(ActionsOf(state)) = 0

\* the step ends the episode with a "No actions available!" entry, without
\* consulting the decision source and without a request
EndsWithAnomalyEntry ==
    /\ pc' = "done"
    /\ game_log'.no_actions = game_log.no_actions + 1
    /\ policyCalls' = policyCalls
    /\ stepRequests' = stepRequests

\* once the loop is left, no decision is asked for and no request is sent
NothingAfterTheLoop ==
    pc \in {"done", "returned"} =>
        (policyCalls' = policyCalls /\ stepRequests' = stepRequests)

\* C16 as stated: whenever the current state has an empty action list while
\* game_over is false, the episode ends at that step with its own "No actions
\* available!" entry, the decision source is not consulted and no play_action
\* is submitted for that state or afterwards.
C16_Original ==
    [][ (EmptyListSeen => EndsWithAnomalyEntry) /\ NothingAfterTheLoop ]_vars

\* C16 amended: the same, for a state the loop tests before its 500-step
\* ceiling; a state with an empty action list returned by the 500th request
\* ends the episode as well, but without the "No actions available!" entry.
C16_EmptyActionListEndsEpisode ==
    [][ /\ (EmptyListSeen /\ step < max_steps => EndsWithAnomalyEntry)
        /\ (EmptyListSeen /\ step >= max_steps =>
               /\ pc' = "done"
               /\ game_log' = game_log
               /\ policyCalls' = policyCalls
               /\ stepRequests' = stepRequests)
        /\ NothingAfterTheLoop ]_vars

\* C16 witness: after at least one submitted action the engine offered no
\* action, and the run ended with the anomaly entry in the transcript.
C16_Witness ==
    /\ pc = "returned"
    /\ ~GameOver(state)
    /\ Len(ActionsOf(state)) = 0
    /\ stepRequests >= 1
    /\ game_log.no_actions = 1
    /\ log_file = game_log

\* C17: when forge_request returns the failure marker for /api/reset,
\* run_game returns None without consulting the decision source, without any
\* /api/step request and without writing a transcript; the loop is only ever
\* running with a state that a successful request returned.
C17_FailedResetReturnsNone ==
    /\ [](pc \in {"loop", "policy", "submit"} => ~Falsy(state))
    /\ [][ /\ (pc = "idle" /\ exception' = "none" /\ Falsy(state')) =>
                 /\ pc' = "returned"
                 /\ return_value' = NoneValue
                 /\ log_file' = NoneValue
                 /\ policyCalls' = 0
                 /\ stepRequests' = 0
            /\ (pc = "returned" =>
                 /\ policyCalls' = policyCalls
                 /\ stepRequests' = stepRequests
                 /\ log_file' = log_file) ]_vars

\* C17 witness: run_game returned None straight after the reset request.
C17_Witness ==
    /\ pc = "returned"
    /\ return_value = NoneValue
    /\ game_log = NoneValue
    /\ log_file = NoneValue
    /\ stepRequests = 0
    /\ policyCalls = 0

\* the input ends the process: `q` in either case, or end of input
Quits(inp) == inp = EndOfInput \/ StripLower(inp.text) = "q"

\* the input names one of the n listed actions
Chooses(inp, n) ==
    /\ ~Quits(inp)
    /\ StripLower(inp.text) \in Numerals
    /\ 0 <= IntOf(StripLower(inp.text))
    /\ IntOf(StripLower(inp.text)) < n

\* C18: local_debug_policy returns only an index i with 0 <= i < N, the
\* number the operator typed; it prompts again after an out-of-range or
\* non-numeric input and after a raw-state dump; `q` or end of input ends the
\* process, and then no request is sent to the engine.
C18_DebugPolicyReturnsListedIndex ==
    [][ /\ (pc = "policy" =>
              LET n == Len(ActionsOf(state))
              IN  /\ (Quits(user_input') => pc' = "exited")
                  /\ (Chooses(user_input', n) =>
                        /\ pc' = "submit"
                        /\ action_index' = IntOf(StripLower(user_input'.text)))
                  /\ (~Quits(user_input') /\ ~Chooses(user_input', n) =>
                        /\ pc' = "policy"
                        /\ policyCalls' = policyCalls)
                  /\ (pc' = "submit" => 0 <= action_index' /\ action_index' < n)
                  /\ stepRequests' = stepRequests)
        /\ (pc = "exited" => stepRequests' = stepRequests /\ pc' = "exited") ]_vars

\* C18 witness: the operator quit at the prompt after at least one action was
\* submitted.
C18_Witness ==
    /\ pc = "exited"
    /\ user_input = Line("q")
    /\ stepRequests >= 1
    /\ policyCalls = stepRequests

\* the /api/step request of this step failed: forge_request raised, or
\* returned None
StepRequestFailed ==
    /\ pc = "submit"
    /\ stepRequests' = stepRequests + 1
    /\ (pc' = "raised" \/ state' = NoneValue)

\* C25: a failed /api/step request raises nothing out of run_game and ends
\* the episode with an ERROR entry in the transcript; no request follows,
\* and the transcript, with an entry for every action submitted, is written
C25_StepFailureEndsEpisodeQuietly ==
    /\ [][StepRequestFailed =>
             /\ pc' = "done"
             /\ exception' = "none"
             /\ game_log'.errors = game_log.errors + 1]_vars
    /\ [][pc = "done" /\ game_log.errors > 0 =>
             /\ stepRequests' = stepRequests
             /\ log_file' = game_log
             /\ log_file'.actions = stepRequests]_vars

----------------------------------------------------------------------------
(* Claims about ForgeEnv *)

\* the last call was a step that returned a StepResult
Stepped == result.kind = "step"

\* life of player i (1 is player 0, 2 is player 1) in the k-th observation
LifeAt(k, i) == lifeTrace[k].lives[i]

\* the episode began with a fetched state showing 20/20 and its two steps
\* observed player 1 at 15 and then at 0, player 0 staying at 20
Falls20To15To0 ==
    /\ Len(lifeTrace) = 3
    /\ ~lifeTrace[1].empty
    /\ lifeTrace[1].lives = <<20, 20>>
    /\ lifeTrace[2].lives = <<20, 15>>
    /\ lifeTrace[3].lives = <<20, 0>>

\* the sum of the step rewards of the episode so far, in tenths
RECURSIVE SumSeq(_)
SumSeq(seq) == IF seq = <<>> THEN 0 ELSE Head(seq) + SumSeq(Tail(seq))

\* C3 as stated: the episode 20/20 -> 20/15 -> 20/0 ends terminated with a
\* cumulative dense reward of 0.5 + 10.0 = 10.5.
C3_Original ==
    Falls20To15To0 => (Stepped /\ result.terminated /\ SumSeq(rewardTrace) = 105)

\* C3 amended: the episode 20/20 -> 20/15 -> 20/0 ends terminated on the
\* second step with a cumulative dense reward of 0.5 + (1.5 + 10.0) = 12.0: the
\* second step is also paid 0.1 for each of the 15 life points lost in it.
C3_CumulativeDenseReward ==
    Falls20To15To0 =>
        /\ Stepped
        /\ result.terminated
        /\ rewardTrace = <<5, 115>>
        /\ SumSeq(rewardTrace) = 120

\* C3 witness: the second step of such an episode has returned.
C3_Witness == Falls20To15To0 /\ Stepped /\ Len(rewardTrace) = 2

\* player i's life is at or below zero in the newest observation and was
\* above zero in every earlier observation of the episode
FirstCrossing(i) ==
    LET k == Len(lifeTrace)
    IN  /\ k >= 2
        /\ LifeAt(k, i) <= 0
        /\ \A j \in 1..(k - 1) : LifeAt(j, i) > 0

\* the sparse reward the claim describes for the newest step, in tenths
ClaimedSparseReward ==
    IF FirstCrossing(2) THEN 10
    ELSE IF FirstCrossing(1) THEN 0 - 10
    ELSE 0

\* C4: ForgeEnv can be constructed with reward_mode="sparse", and then every
\* step returns 0.0 except the step on which a life total first crosses to
\* <= 0, which returns +1.0 (player 1 at <= 0) or -1.0 (player 0 at <= 0).
C4_SparseRewardMode ==
    (constructed # "no" /\ Get(kwargs, "reward_mode", "dense") = "sparse") =>
        /\ constructed = "yes"
        /\ (Stepped => result.reward = ClaimedSparseReward)

\* the flat win/loss part of the newest step reward: the reward less the
\* 0.1-per-life terms of the pair (previous_state, current_state)
FlatPart ==
    LET k == Len(lifeTrace)
    IN  result.reward
          - OpponentLifeReward(LifeAt(k - 1, 2), LifeAt(k, 2))
          + SelfLifePenalty(LifeAt(k - 1, 1), LifeAt(k, 1))

\* player i's life was at or below zero in an earlier observation of the episode
AlreadyAtZero(i) == \E j \in 1..(Len(lifeTrace) - 1) : LifeAt(j, i) <= 0

\* C6: within an episode that began with a fetched state showing both lives
\* above zero, a step that follows an observation of player 1 at <= 0 is not
\* paid the +10.0 win bonus again, and a step that follows an observation of
\* player 0 at <= 0 is not charged the -10.0 loss penalty again.
C6_FlatBonusOnlyOnFirstCrossing ==
    ( /\ Stepped
      /\ ~Falsy(previous_state)
      /\ ~Falsy(current_state)
      /\ ~lifeTrace[1].empty
      /\ LifeAt(1, 1) > 0
      /\ LifeAt(1, 2) > 0 )
    => /\ (AlreadyAtZero(2) => FlatPart < 100)
       /\ (AlreadyAtZero(1) => FlatPart > 0 - 100)

\* some player of a fetched state has life at or below zero
SomeLifeAtOrBelowZero(cs) ==
    LET players == Get(cs, "players", <<>>)
    IN  \E i \in 1..Len(players) : Get(players[i], "life", 20) <= 0

\* C8: for a state that was fetched and parsed, step returns terminated=true
\* if and only if some player's life is <= 0 or the engine reports game_over.
C8_TerminatedIffGameEnded ==
    (Stepped /\ ~Falsy(current_state)) =>
        (result.terminated <=>
            (SomeLifeAtOrBelowZero(current_state) \/ GameOver(current_state)))

C13_ConcedeOnceAndCloseNeverRaises ==
    /\ (teardown # NoTeardown => teardown.concedes = 1 /\ ~teardown.raised)
    /\ (call = "close" => result.kind = "close" /\ process = "None")
    /\ (call \in {"none", "step"} => teardown = NoTeardown)

\* C13 witness: close returned after closing a process that had exited, so
\* that the one concede command met a broken pipe.
C13_Witness ==
    /\ call = "close"
    /\ result.kind = "close"
    /\ teardown # NoTeardown
    /\ teardown.concedes = 1
    /\ ~teardown.delivered
    /\ process = "None"

\* engine processes spawned by the environment that are still running
AliveProcesses == orphans + (IF process = "running" /\ procAlive THEN 1 ELSE 0)

\* C19: at most one engine process spawned by the environment is alive: a
\* process the environment no longer holds is not running (reset tears the
\* previous one down before it spawns, close tears it down), and after close
\* self.process is None.
C19_AtMostOneEngineProcess ==
    /\ AliveProcesses <= 1
    /\ orphans = 0
    /\ (process = "None" => ~procAlive)
    /\ (teardown # NoTeardown => ~teardown.alive_after)
    /\ (call = "close" => process = "None")

\* C19 witness: a reset replaced a running process that had to be killed,
\* and the new process is the only one alive.
C19_Witness ==
    /\ call = "reset"
    /\ teardown # NoTeardown
    /\ teardown.killed
    /\ process = "running"
    /\ procAlive
    /\ AliveProcesses = 1

\* C26: a step called while no engine process is held (before the first
\* reset, or after close) raises RuntimeError, writes no command, and leaves
\* current_state, current_actions and episode_turns as they were
C26_StepWithoutProcessRaises ==
    [][call' = "step" /\ process = "None" =>
          /\ result'.kind = "RuntimeError"
          /\ UNCHANGED <<command, process, current_state, current_actions,
                         episode_turns>>]_vars

\* step raised RuntimeError after an episode had been started and closed
C26_Witness ==
    /\ call = "step"
    /\ result.kind = "RuntimeError"
    /\ process = "None"
    /\ lifeTrace # <<>>
    /\ ~Falsy(current_state)

\* the turn count the call left is the one _update_state stores, starting
\* from the turn count given: the turn of the state fetched, or the count
\* given when the answer did not parse and the state is {}
FetchedWith(turns) ==
    \/ episode_turns' = Get(current_state', "turn", 0)
    \/ current_state' = EmptyDict /\ episode_turns' = turns

\* C27: a reset that returns leaves the state it fetched, no previous
\* state, and the turn count of that state, starting from turn count 0; a
\* step that returns after a call that returned takes its reward from the
\* state that call left and the state it fetched, its command from its
\* argument and the action list that call left, and its truncation flag
\* from the turn count of the fetched state or else of that call
C27_EpisodeStartsAfresh ==
    [][/\ call' = "reset" /\ result'.kind = "reset" =>
             /\ FetchedWith(0)
             /\ previous_state' = NoneValue
             /\ result'.observation = GetObservation(current_state')
       /\ /\ call' = "step" /\ result'.kind = "step"
          /\ Len(rewardTrace') = Len(rewardTrace) + 1
          /\ result.kind \in {"reset", "step"}
          => /\ FetchedWith(episode_turns)
             /\ result'.reward =
                    CalculateReward(IF Falsy(current_state) THEN NoneValue
                                    ELSE current_state, current_state')
             /\ result'.truncated = IsTruncated(episode_turns')
             /\ command' = ActionCommand(result'.action_taken, current_actions)
      ]_vars

\* a reset that ended an earlier episode returned; its state did not parse
\* and the turn count is back at 0
C27_Witness ==
    /\ call = "reset"
    /\ result.kind = "reset"
    /\ teardown # NoTeardown
    /\ current_state = EmptyDict
    /\ episode_turns = 0
    /\ current_actions # <<>>

\* C21: every step that returns wrote `play_action a` when its argument a is
\* an index of the action list the preceding call left (0 <= a < N) and
\* `pass_priority` otherwise, and no play_action command carries a negative
\* index
C21_PlayActionOnlyInRange ==
    /\ [](command.cmd = "play_action" => command.index >= 0)
    /\ [][call' = "step" /\ result'.kind = "step" =>
            LET a == result'.action_taken
                N == Len(current_actions)
            IN  command' = IF 0 <= a /\ a < N THEN PlayAction(a)
                           ELSE PassPriority]_vars

----------------------------------------------------------------------------
(* Claims about _calculate_reward *)

\* the reward function has returned
Evaluated == rw_out # NoneValue

\* a state whose players list has exactly two entries
TwoPlayerState(s) ==
    /\ ~Falsy(s)
    /\ "players" \in DOMAIN s
    /\ Len(s.players) = 2

\* life of player i (1 is player 0, 2 is player 1) in a two-player state
LifeIn(s, i) == Get(s.players[i], "life", 20)

\* life player i lost between two states; life gained counts 0
LifeLost(prev, curr, i) ==
    IF LifeIn(curr, i) < LifeIn(prev, i) THEN LifeIn(prev, i) - LifeIn(curr, i) ELSE 0

\* C5: the dense reward of a pair with previous == current is exactly 0.0,
\* also when a player's life is already <= 0 in it.
C5_ZeroWhenUnchanged ==
    (Evaluated /\ rw_prev = rw_curr) => rw_out.reward = 0

\* C7: on two-player states the dense reward is the sum of four independent
\* components: +0.1 per life lost by player 1, -0.1 per life lost by player 0,
\* +10.0 if player 1 is at <= 0, and -10.0 if player 0 is at <= 0.
C7_FourIndependentComponents ==
    (Evaluated /\ TwoPlayerState(rw_prev) /\ TwoPlayerState(rw_curr)) =>
        rw_out.reward =
            LifeLost(rw_prev, rw_curr, 2)
              - LifeLost(rw_prev, rw_curr, 1)
              + (IF LifeIn(rw_curr, 2) <= 0 THEN 100 ELSE 0)
              + (IF LifeIn(rw_curr, 1) <= 0 THEN 0 - 100 ELSE 0)

\* C20: _calculate_reward returns exactly 0.0 whenever there is no previous
\* observation (previous_state is None or empty), whatever the current state.
C20_ZeroWithoutPreviousState ==
    (Evaluated /\ (rw_prev = NoneValue \/ rw_prev = EmptyDict)) => rw_out.reward = 0

\* C20 witness: the reward of a pair without previous state, whose current
\* state shows player 1 at 0, was computed and is 0.
C20_Witness ==
    /\ Evaluated
    /\ rw_prev = NoneValue
    /\ TwoPlayerState(rw_curr)
    /\ LifeIn(rw_curr, 2) <= 0
    /\ rw_out.reward = 0

----------------------------------------------------------------------------
(* Claims about ForgeEnv's use of the pipe *)

\* every command but concede is followed by its read before the next write
Alternates(log) ==
    \A i \in 1..Len(log) :
        log[i].op = "write" /\ log[i].cmd # "concede" =>
            i < Len(log) /\ log[i + 1].op = "read"

\* every read returned nothing, or the one answer to the command written
\* just before it
AnswersItsCommand(log) ==
    \A i \in 1..Len(log) :
        log[i].op = "read" /\ log[i].got # <<>> =>
            /\ i > 1
            /\ log[i - 1].op = "write"
            /\ log[i].got = <<Answer(log[i - 1].cmd, log[i - 1].n)>>

\* C22: in every call, each command other than concede has its response read
\* before the next command is written, and what a read returns is the
\* answer to the command written just before it, never an older answer
C22_CommandsAndReadsAlternate ==
    Alternates(wr_log) /\ AnswersItsCommand(wr_log)

\* the lines returned stop at the first end marker read
StopsAtFirstEndMarker ==
    \A i \in 1..Len(rd_lines) : IsEndMarker(rd_lines[i]) => i = Len(rd_lines)

\* what _read_response returned is what the claim says
ReturnedAsClaimed ==
    /\ StopsAtFirstEndMarker
    /\ ~rd_process => rd_lines = <<>>
    /\ rd_process /\ (rd_lines = <<>> \/ ~IsEndMarker(rd_lines[Len(rd_lines)]))
          => rd_clock >= timeout

\* C23: _read_response always returns, also when the engine writes nothing,
\* writes part of a line, or has exited; what it returns are the lines read
\* up to and including the first line that strips to } or ], or the lines
\* read when the timeout ran out, or nothing when there is no process
C23_ReadResponseAlwaysReturns ==
    /\ <>(rd_pc = "returned")
    /\ [](rd_pc = "returned" => ReturnedAsClaimed)

\* C24: when the engine has written a complete document before
\* _read_response returns, the lines returned are the whole document and no
\* line of it is left in the pipe or in the stream's buffer
C24_WholeDocumentReturned ==
    rd_pc = "returned" /\ rd_process /\ rd_doc \in Documents /\ rd_plan = <<>>
        => rd_lines = rd_doc /\ rd_pipe = <<>> /\ rd_buf = <<>>

----------------------------------------------------------------------------
(* Claims about _get_observation *)

\* C28: for every phase string the observation's phase code lies in 0..9;
\* it is the table's code for a phase the table holds and 0 for any other
\* string and for a state without phase
C28_PhaseCodeInSpace ==
    ob_out # NoneValue =>
        /\ ob_out.phase \in 0..9
        /\ "phase" \in DOMAIN ob_state /\ ob_state.phase \in DOMAIN phase_map
              => ob_out.phase = phase_map[ob_state.phase]
        /\ "phase" \notin DOMAIN ob_state \/ ob_state.phase \notin DOMAIN phase_map
              => ob_out.phase = 0

\* an unrecognised phase string was observed as code 0
C28_Witness ==
    /\ ob_out # NoneValue
    /\ "phase" \in DOMAIN ob_state
    /\ ob_state.phase = "Main Phase 1"
    /\ ob_out.phase = 0

----------------------------------------------------------------------------
(* Claims about the payload builders *)

\* the list `listed` numbers the actions of nz_state from 0 in their order
\* and repeats the type and card name of each
NumbersInOrder(listed) ==
    LET actions == ActionsOf(nz_state)
    IN  /\ Len(listed) = Len(actions)
        /\ { listed[k].index : k \in 1..Len(listed) } = 0 .. (Len(actions) - 1)
        /\ \A k \in 1..Len(actions) :
              /\ listed[k].index = k - 1
              /\ ("type" \in DOMAIN actions[k] => listed[k].type = actions[k].type)
              /\ ("card_name" \in DOMAIN actions[k] =>
                     listed[k].card = actions[k].card_name)

\* C12: for a raw state whose possible_actions.actions has length N, the
\* action list of both payloads has length N, its k-th entry has index k
\* (counted from 0) and the type and card name of the engine's k-th action, so
\* the indices are exactly 0..N-1 in the engine's order.
C12_NormalizedIndicesInOrder ==
    /\ (nz_policy # NoneValue => NumbersInOrder(nz_policy.possible_actions))
    /\ (nz_debug # NoneValue => NumbersInOrder(nz_debug.possible_actions))

\* C12 witness: both payloads were built for a list of MaxListed actions
\* whose first two entries differ.
C12_Witness ==
    /\ nz_policy # NoneValue
    /\ nz_debug # NoneValue
    /\ Len(ActionsOf(nz_state)) = MaxListed
    /\ ActionsOf(nz_state)[1] # ActionsOf(nz_state)[2]
    /\ nz_policy.possible_actions[2].index = 1

----------------------------------------------------------------------------
(* Specifications *)

Init == LoopInit /\ EnvInit /\ RewardIdle /\ NormalizeIdle /\ WireIdle /\ ReadIdle /\ ObservationIdle

\* run_game
SpecLoop == Init /\ [][NextLoop]_vars

\* every call made by run_game returns or times out, so an enabled step is taken
FairSpecLoop == SpecLoop /\ WF_vars(NextLoop)

\* ForgeEnv under an arbitrary caller and engine
SpecEnv == Init /\ [][NextEnv]_vars

\* ForgeEnv under an arbitrary caller and a failing engine
SpecEnvFaults == Init /\ [][NextEnvFaults]_vars

InitReward == LoopInit /\ EnvInit /\ RewardInit /\ NormalizeIdle /\ WireIdle /\ ReadIdle /\ ObservationIdle

\* _calculate_reward on every pair of RewardStates
SpecReward == InitReward /\ [][NextReward]_vars

InitNormalize == LoopInit /\ EnvInit /\ RewardIdle /\ NormalizeInit /\ WireIdle /\ ReadIdle /\ ObservationIdle

\* the payload builders on every state of ListedStates
SpecNormalize == InitNormalize /\ [][NextNormalize]_vars

\* run_game in LOCAL_DEBUG_MODE
SpecDebugLoop == Init /\ [][NextDebugLoop]_vars

\* ForgeEnv's traffic on the engine's pipes
SpecWire == Init /\ [][NextWire]_vars

InitRead == LoopInit /\ EnvInit /\ RewardIdle /\ NormalizeIdle /\ WireIdle /\ ReadInit /\ ObservationIdle

\* one call of _read_response for every answer of Emissions
SpecRead == InitRead /\ [][NextRead]_vars

InitObservation ==
    /\ LoopInit /\ EnvInit /\ RewardIdle /\ NormalizeIdle /\ WireIdle /\ ReadIdle
    /\ ObservationInit

\* _get_observation on every state of ObservedStates
SpecObservation == InitObservation /\ [][NextObservation]_vars

\* _read_response keeps running; nothing obliges the engine to write or exit
FairSpecRead == SpecRead /\ WF_vars(ReadResponse)

Next ==
    NextLoop \/ NextDebugLoop \/ NextEnv \/ NextEnvFaults \/ NextReward \/ NextNormalize
      \/ NextWire \/ NextRead \/ NextObservation

\* all parts side by side
Spec == Init /\ [][Next]_vars

====
